---- MODULE Spec2Model ----
(***************************************************************************)
(* Model of rbtree/tree.go: an intrusive red-black tree with a header      *)
(* (sentinel) node, unique and multi mode, cursors, and range erase.       *)
(*                                                                         *)
(* Node addresses are the integers 0..MaxNodes; address 0 is the header.   *)
(* The host's node factory hands out a fresh address at every call and the *)
(* reclaimer leaves released nodes to the garbage collector (tree.go:152), *)
(* so an address is never reused.  A payload is modelled by the key the    *)
(* host's key projection derives from it; the tree code reads nothing else *)
(* of a payload.  A second tree, always empty, supplies the one cursor     *)
(* that does not belong to this tree: its End().                           *)
(***************************************************************************)
EXTENDS Integers, Sequences, FiniteSets, TLC

\* ---------------------------------------------------------------- bounds
MaxNodes == 6        \* nodes the host's factory creates in one run
MaxKey == 3          \* keys offered to a unique tree are 1..MaxKey
MaxMultiKey == 2     \* keys offered to a multi tree are 1..MaxMultiKey

\* ------------------------------------------------------------- constants
header == 0          \* Tree.header: the sentinel, also the end cursor
nil == -1            \* Go nil pointer
red == FALSE
black == TRUE
NoData == 0          \* zero value of a payload slot
NoErr == 0           \* no panic raised
ErrNotInTree == -2
ErrNoLast == -3
ErrNoNext == -4
ErrEraseEmpty == -5

other == MaxNodes + 1    \* the header of a second, empty tree: a cursor foreign to this one
Nodes == 0..(MaxNodes + 1)
Real == 1..MaxNodes
Panics == {ErrNotInTree, ErrNoLast, ErrNoNext, ErrEraseEmpty}

VARIABLES
  child,     \* child[n][ch]: Node.child; for the header, the leftmost/rightmost cache
  parent,    \* parent[n]: Node.parent; for the header, the root
  color,     \* color[n]: Node.color
  data,      \* data[n]: key of the payload stored in node n
  tree,      \* tree[n]: Node.tree, header when owned by this tree, nil when released
  size,      \* Tree.size
  heap,      \* number of nodes the host's factory has created
  unique,    \* Tree.unique
  op,        \* the last public call and its arguments
  iter,      \* cursor returned by the last call (nil when it returns none)
  ok,        \* bool returned by the last Insert
  count,     \* int returned by the last Erase / EraseIteratorRange
  err,       \* panic raised by the last call, NoErr when it returned
  cases,     \* fixup cases the last call went through
  freed      \* nodes handed to the reclaimer by the last call, in order

vars == <<child, parent, color, data, tree, size, heap, unique, op, iter, ok, count, err, cases, freed>>

\* The tree as a value the operations transform; the out-registers
\* (iter, ok, count, err, cases, freed) start cleared at every public call.
Cur ==
  [child |-> child, parent |-> parent, color |-> color, data |-> data,
   tree |-> tree, size |-> size, heap |-> heap, unique |-> unique,
   iter |-> nil, ok |-> FALSE, count |-> 0, err |-> NoErr, cases |-> {}, freed |-> <<>>]

\* ---------------------------------------------------------- field access
end(T) == header

getChild(T, node, ch) == T.child[node][ch]

setChild(T, node, ch, c) == [T EXCEPT !.child[node][ch] = c]

getParent(T, node) == T.parent[node]

setParent(T, node, p) == [T EXCEPT !.parent[node] = p]

getColor(T, node) == T.color[node]

setColor(T, node, c) == [T EXCEPT !.color[node] = c]

setTree(T, node, t) == [T EXCEPT !.tree[node] = t]

getKey(T, node) == T.data[node]

compare(a, b) == a - b

root(T) == getParent(T, header)

most(T, ch) == getChild(T, header, ch)

begin(T) == most(T, 0)

Size(T) == T.size

Empty(T) == T.size = 0

mustGetColor(T, node) == IF node # end(T) THEN getColor(T, node) ELSE black

sameTree(T, node) == T.tree[node] = header

\* A pointer to a link slot: <<node, 0>> and <<node, 1>> are the child slots,
\* <<node, 2>> is the parent slot.
getChildPointer(node, ch) == <<node, ch>>

getParentPointer(node) == <<node, 2>>

rootPoiter == getParentPointer(header)

mostPoiter(ch) == getChildPointer(header, ch)

load(T, p) == IF p[2] = 2 THEN T.parent[p[1]] ELSE T.child[p[1]][p[2]]

store(T, p, v) ==
  IF p[2] = 2 THEN [T EXCEPT !.parent[p[1]] = v] ELSE [T EXCEPT !.child[p[1]][p[2]] = v]

panic(T, e) == [T EXCEPT !.err = e]

note(T, c) == [T EXCEPT !.cases = @ \cup {c}]

\* ------------------------------------------------------------- rotation
\* a rotation that leaves the parent link of the subtree it moves as it was
rotateNoReparent(T, ch, node) ==
  LET tmp == getChild(T, node, ch)
      par == getParent(T, node)
      grandpa == getParent(T, par)
      T1 == setChild(T, node, ch, par)
      T2 == setChild(T1, par, 1 - ch, tmp)
      T4 == setParent(T2, par, node)
      T5 == setParent(T4, node, grandpa)
  IN IF grandpa = end(T) THEN store(T5, rootPoiter, node)
     ELSE IF getChild(T5, grandpa, 0) = par THEN setChild(T5, grandpa, 0, node)
     ELSE setChild(T5, grandpa, 1, node)

rotate(T, ch, node) ==
  LET tmp == getChild(T, node, ch)
      par == getParent(T, node)
      grandpa == getParent(T, par)
      T1 == setChild(T, node, ch, par)
      T2 == setChild(T1, par, 1 - ch, tmp)
      T3 == IF tmp # end(T) THEN setParent(T2, tmp, par) ELSE T2
      T4 == setParent(T3, par, node)
      T5 == setParent(T4, node, grandpa)
  IN IF grandpa = end(T) THEN store(T5, rootPoiter, node)
     ELSE IF getChild(T5, grandpa, 0) = par THEN setChild(T5, grandpa, 0, node)
     ELSE setChild(T5, grandpa, 1, node)

\* ------------------------------------------------------------ iteration
RECURSIVE descend(_, _, _)
descend(T, ch, node) ==
  IF getChild(T, node, ch) # end(T) THEN descend(T, ch, getChild(T, node, ch)) ELSE node

RECURSIVE climb(_, _, _)
climb(T, ch, node) ==
  IF getParent(T, node) # end(T) /\ getChild(T, getParent(T, node), ch) = node
  THEN climb(T, ch, getParent(T, node))
  ELSE getParent(T, node)

\* a gothrough that takes the parent without climbing
gothroughNoClimb(T, ch, node) ==
  IF getChild(T, node, ch) # end(T)
  THEN descend(T, 1 - ch, getChild(T, node, ch))
  ELSE getParent(T, node)

gothrough(T, ch, node) ==
  IF getChild(T, node, ch) # end(T)
  THEN descend(T, 1 - ch, getChild(T, node, ch))
  ELSE climb(T, ch, node)

\* a next without the check for End()
nextNoEndCheck(T, node) ==
  IF node = most(T, 1) THEN end(T)
  ELSE gothrough(T, 1, node)

\* a last without the shortcut from End() to the cached maximum
lastNoEnd(T, node) ==
  IF node = begin(T) THEN ErrNoLast
  ELSE gothrough(T, 0, node)

\* next and last return a node, or the panic they raise
next(T, node) ==
  IF node = end(T) THEN ErrNoNext
  ELSE IF node = most(T, 1) THEN end(T)
  ELSE gothrough(T, 1, node)

last(T, node) ==
  IF node = begin(T) THEN ErrNoLast
  ELSE IF node = end(T) THEN most(T, 1)
  ELSE gothrough(T, 0, node)

\* Tree.Next and Tree.Last: T with the returned cursor in T.iter, or with the
\* panic in T.err
TreeNext(T, node) ==
  IF ~sameTree(T, node) THEN panic(T, ErrNotInTree)
  ELSE LET r == next(T, node) IN
       IF r \in Panics THEN panic(T, r) ELSE [T EXCEPT !.iter = r]

TreeLast(T, node) ==
  IF ~sameTree(T, node) THEN panic(T, ErrNotInTree)
  ELSE LET r == last(T, node) IN
       IF r \in Panics THEN panic(T, r) ELSE [T EXCEPT !.iter = r]

\* ------------------------------------------------- node factory/reclaimer
\* The host's factory: the next fresh address
alloc(T) == T.heap + 1

hasFree(T) == T.heap < MaxNodes

\* t.newNode: returns T with the new node in T.iter
newNode(T, d) ==
  LET n == alloc(T)
      T1 == [T EXCEPT !.data[n] = d]
      T2 == setChild(T1, n, 0, end(T))
      T3 == setChild(T2, n, 1, end(T))
      T4 == setParent(T3, n, end(T))
      T5 == setTree(T4, n, header)
      T6 == setColor(T5, n, red)
  IN [T6 EXCEPT !.iter = n, !.heap = n]

\* t.deleteNode: clears the links and hands the node to the host's reclaimer;
\* the released node is garbage, its colour and payload are modelled as zeroed.
deleteNode(T, node) ==
  LET T1 == setChild(T, node, 0, nil)
      T2 == setChild(T1, node, 1, nil)
      T3 == setParent(T2, node, nil)
      T4 == setTree(T3, node, nil)
  IN [T4 EXCEPT !.color[node] = red, !.data[node] = NoData, !.freed = Append(@, node)]

\* -------------------------------------------------------------- insert
\* a recolouring that leaves the parent red
insertRecolorKeepParent(T, par, grandpa, uncle) ==
  setColor(setColor(T, grandpa, red), uncle, black)

\* the recolouring of insertAdjust when the uncle is red
insertRecolor(T, par, grandpa, uncle) ==
  setColor(setColor(setColor(T, par, black), grandpa, red), uncle, black)

RECURSIVE insertAdjust(_, _)
insertAdjust(T, node) ==
  LET par == getParent(T, node) IN
  IF par = end(T) THEN note(setColor(T, node, black), "i1")
  ELSE IF getColor(T, par) = black THEN note(T, "i2")
  ELSE
    LET grandpa == getParent(T, par)
        parentCh == IF getChild(T, grandpa, 1) = par THEN 1 ELSE 0
        uncle == getChild(T, grandpa, 1 - parentCh)
    IN IF uncle # end(T) /\ getColor(T, uncle) = red
       THEN insertAdjust(note(insertRecolor(T, par, grandpa, uncle), "i3"), grandpa)
       ELSE
         LET childCh == IF getChild(T, par, 1) = node THEN 1 ELSE 0
             inner == childCh # parentCh
             T1 == IF inner THEN note(rotate(T, parentCh, node), "i4") ELSE T
             par1 == IF inner THEN node ELSE par
             T2 == setColor(T1, par1, black)
             T3 == setColor(T2, grandpa, red)
         IN note(rotate(T3, 1 - parentCh, par1), "i5")

\* a descent that takes the comparison the wrong way round
RECURSIVE insertDescendInverted(_, _, _, _, _)
insertDescendInverted(T, key, rt, par, rp) ==
  IF rt = end(T) THEN [reject |-> FALSE, parent |-> par, rootPoiter |-> rp]
  ELSE LET cmp == compare(getKey(T, rt), key) IN
       IF cmp = 0 /\ T.unique THEN [reject |-> TRUE, parent |-> rt, rootPoiter |-> rp]
       ELSE IF cmp <= 0
            THEN insertDescendInverted(T, key, getChild(T, rt, 0), rt, getChildPointer(rt, 0))
            ELSE insertDescendInverted(T, key, getChild(T, rt, 1), rt, getChildPointer(rt, 1))

\* a descent that never rejects an equal key
RECURSIVE insertDescendNoReject(_, _, _, _, _)
insertDescendNoReject(T, key, rt, par, rp) ==
  IF rt = end(T) THEN [reject |-> FALSE, parent |-> par, rootPoiter |-> rp]
  ELSE IF compare(key, getKey(T, rt)) <= 0
       THEN insertDescendNoReject(T, key, getChild(T, rt, 0), rt, getChildPointer(rt, 0))
       ELSE insertDescendNoReject(T, key, getChild(T, rt, 1), rt, getChildPointer(rt, 1))

\* the descent loop of insert: the slot to fill and its owner, or a rejection
RECURSIVE insertDescend(_, _, _, _, _)
insertDescend(T, key, rt, par, rp) ==
  IF rt = end(T) THEN [reject |-> FALSE, parent |-> par, rootPoiter |-> rp]
  ELSE LET cmp == compare(key, getKey(T, rt)) IN
       IF cmp = 0 /\ T.unique THEN [reject |-> TRUE, parent |-> rt, rootPoiter |-> rp]
       ELSE IF cmp <= 0
            THEN insertDescend(T, key, getChild(T, rt, 0), rt, getChildPointer(rt, 0))
            ELSE insertDescend(T, key, getChild(T, rt, 1), rt, getChildPointer(rt, 1))

\* an insert that leaves the leftmost/rightmost cache alone
insertMostNone(T, par, rp, ch) == T

\* the leftmost/rightmost adjustment of insert for one side
insertMost(T, par, rp, ch) ==
  IF par = most(T, ch) /\ getChild(T, par, ch) = load(T, rp)
  THEN store(T, mostPoiter(ch), load(T, rp))
  ELSE T

insert(T, d, key) ==
  IF root(T) = end(T)
  THEN LET T1 == [T EXCEPT !.size = @ + 1]
           T2 == newNode(T1, d)
           T3 == store(T2, rootPoiter, T2.iter)
           T4 == insertAdjust(T3, load(T3, rootPoiter))
           T5 == store(T4, mostPoiter(0), load(T4, rootPoiter))
           T6 == store(T5, mostPoiter(1), load(T5, rootPoiter))
       IN [T6 EXCEPT !.iter = load(T6, rootPoiter), !.ok = TRUE]
  ELSE LET w == insertDescend(T, key, root(T), getParent(T, root(T)), rootPoiter) IN
       IF w.reject THEN [T EXCEPT !.iter = end(T), !.ok = FALSE]
       ELSE LET rp == w.rootPoiter
                T1 == [T EXCEPT !.size = @ + 1]
                T2 == newNode(T1, d)
                T3 == store(T2, rp, T2.iter)
                T4 == setParent(T3, load(T3, rp), w.parent)
                T5 == insertMost(T4, w.parent, rp, 0)
                T6 == insertMost(T5, w.parent, rp, 1)
                T7 == insertAdjust(T6, load(T6, rp))
            IN [T7 EXCEPT !.iter = load(T7, rp), !.ok = TRUE]

\* -------------------------------------------------------------- search
\* a find that turns the wrong way below a larger key
RECURSIVE findWrongWay(_, _, _)
findWrongWay(T, key, rt) ==
  IF rt = end(T) THEN rt
  ELSE LET cmp == compare(key, getKey(T, rt)) IN
       IF cmp = 0 THEN rt
       ELSE IF cmp < 0 THEN findWrongWay(T, key, getChild(T, rt, 1))
       ELSE findWrongWay(T, key, getChild(T, rt, 1))

RECURSIVE find(_, _, _)
find(T, key, rt) ==
  IF rt = end(T) THEN rt
  ELSE LET cmp == compare(key, getKey(T, rt)) IN
       IF cmp = 0 THEN rt
       ELSE IF cmp < 0 THEN find(T, key, getChild(T, rt, 0))
       ELSE find(T, key, getChild(T, rt, 1))

\* Tree.Find: T with the returned cursor in T.iter
Find(T, key) == [T EXCEPT !.iter = find(T, key, root(T))]

\* a lower bound that steps past a last visited node holding the key itself
RECURSIVE lowerBoundFromStrict(_, _, _, _)
lowerBoundFromStrict(T, key, rt, par) ==
  IF rt = end(T)
  THEN IF par = end(T) THEN par
       ELSE IF compare(key, getKey(T, par)) < 0 THEN par
       ELSE next(T, par)
  ELSE IF compare(key, getKey(T, rt)) > 0
       THEN lowerBoundFromStrict(T, key, getChild(T, rt, 1), rt)
       ELSE lowerBoundFromStrict(T, key, getChild(T, rt, 0), rt)

\* the descent loops of lowerBound and upperBound, from rt with par last visited
RECURSIVE lowerBoundFrom(_, _, _, _)
lowerBoundFrom(T, key, rt, par) ==
  IF rt = end(T)
  THEN IF par = end(T) THEN par
       ELSE IF compare(key, getKey(T, par)) <= 0 THEN par
       ELSE next(T, par)
  ELSE IF compare(key, getKey(T, rt)) > 0
       THEN lowerBoundFrom(T, key, getChild(T, rt, 1), rt)
       ELSE lowerBoundFrom(T, key, getChild(T, rt, 0), rt)

lowerBound(T, key) == lowerBoundFrom(T, key, root(T), end(T))

\* an upper bound that stops at the first node holding the key
RECURSIVE upperBoundFromLoose(_, _, _, _)
upperBoundFromLoose(T, key, rt, par) ==
  IF rt = end(T)
  THEN IF par = end(T) THEN par
       ELSE IF compare(key, getKey(T, par)) <= 0 THEN par
       ELSE next(T, par)
  ELSE IF compare(key, getKey(T, rt)) > 0
       THEN upperBoundFromLoose(T, key, getChild(T, rt, 1), rt)
       ELSE upperBoundFromLoose(T, key, getChild(T, rt, 0), rt)

RECURSIVE upperBoundFrom(_, _, _, _)
upperBoundFrom(T, key, rt, par) ==
  IF rt = end(T)
  THEN IF par = end(T) THEN par
       ELSE IF compare(key, getKey(T, par)) < 0 THEN par
       ELSE next(T, par)
  ELSE IF compare(key, getKey(T, rt)) >= 0
       THEN upperBoundFrom(T, key, getChild(T, rt, 1), rt)
       ELSE upperBoundFrom(T, key, getChild(T, rt, 0), rt)

upperBound(T, key) == upperBoundFrom(T, key, root(T), end(T))

\* Tree.EqualRange: the pair LowerBound(key), UpperBound(key)
EqualRange(T, key) == <<lowerBound(T, key), upperBound(T, key)>>

\* the loop of Count in multi mode; a panic of next ends it
RECURSIVE countLoop(_, _, _, _)
countLoop(T, key, beg, n) ==
  IF beg # end(T) /\ compare(getKey(T, beg), key) = 0
  THEN LET nx == next(T, beg) IN
       IF nx \in Panics THEN nx ELSE countLoop(T, key, nx, n + 1)
  ELSE n

Count(T, key) ==
  IF T.unique
  THEN IF find(T, key, root(T)) = end(T) THEN 0 ELSE 1
  ELSE countLoop(T, key, lowerBound(T, key), 0)

\* --------------------------------------------------------------- erase
\* a fixup that, under a black parent and a black brother, looks at the brother's
\* far child before the near one
RECURSIVE eraseAdjustFarFirst(_, _, _)
eraseAdjustFarFirst(T, node, par) ==
  IF par = end(T)
  THEN note(IF node # end(T) THEN setColor(T, node, black) ELSE T, "e1")
  ELSE IF mustGetColor(T, node) = red THEN note(setColor(T, node, black), "e2")
  ELSE
    LET nodeCh == IF getChild(T, par, 1) = node THEN 1 ELSE 0
        brother == getChild(T, par, 1 - nodeCh)
        bothBlack == /\ mustGetColor(T, getChild(T, brother, 0)) = black
                     /\ mustGetColor(T, getChild(T, brother, 1)) = black
    IN
    IF getColor(T, par) = red
    THEN IF bothBlack
         THEN note(setColor(setColor(T, brother, red), par, black), "e3")
         ELSE IF brother # end(T) /\ mustGetColor(T, getChild(T, brother, nodeCh)) = red
         THEN LET T1 == setColor(T, par, black)
                  T2 == rotate(T1, 1 - nodeCh, getChild(T1, brother, nodeCh))
              IN note(rotate(T2, nodeCh, getChild(T2, par, 1 - nodeCh)), "e4")
         ELSE note(rotate(T, nodeCh, brother), "e5")
    ELSE IF mustGetColor(T, brother) = red
         THEN LET T1 == setColor(T, brother, black)
                  T2 == setColor(T1, par, red)
                  T3 == rotate(T2, nodeCh, brother)
              IN eraseAdjustFarFirst(note(T3, "e6"), node, par)
         ELSE IF bothBlack
         THEN eraseAdjustFarFirst(note(setColor(T, brother, red), "e7"), par, getParent(T, par))
         ELSE IF mustGetColor(T, getChild(T, brother, 1 - nodeCh)) = red
         THEN LET T1 == setColor(T, getChild(T, brother, 1 - nodeCh), black)
              IN note(rotate(T1, nodeCh, brother), "e9")
         ELSE LET T1 == setColor(T, getChild(T, brother, nodeCh), black)
                  T2 == rotate(T1, 1 - nodeCh, getChild(T1, brother, nodeCh))
              IN note(rotate(T2, nodeCh, getChild(T2, par, 1 - nodeCh)), "e8")

RECURSIVE eraseAdjust(_, _, _)
eraseAdjust(T, node, par) ==
  IF par = end(T)
  THEN note(IF node # end(T) THEN setColor(T, node, black) ELSE T, "e1")
  ELSE IF mustGetColor(T, node) = red THEN note(setColor(T, node, black), "e2")
  ELSE
    LET nodeCh == IF getChild(T, par, 1) = node THEN 1 ELSE 0
        brother == getChild(T, par, 1 - nodeCh)
        bothBlack == /\ mustGetColor(T, getChild(T, brother, 0)) = black
                     /\ mustGetColor(T, getChild(T, brother, 1)) = black
    IN
    IF getColor(T, par) = red
    THEN IF bothBlack
         THEN note(setColor(setColor(T, brother, red), par, black), "e3")
         ELSE IF brother # end(T) /\ mustGetColor(T, getChild(T, brother, nodeCh)) = red
         THEN LET T1 == setColor(T, par, black)
                  T2 == rotate(T1, 1 - nodeCh, getChild(T1, brother, nodeCh))
              IN note(rotate(T2, nodeCh, getChild(T2, par, 1 - nodeCh)), "e4")
         ELSE note(rotate(T, nodeCh, brother), "e5")
    ELSE IF mustGetColor(T, brother) = red
         THEN LET T1 == setColor(T, brother, black)
                  T2 == setColor(T1, par, red)
                  T3 == rotate(T2, nodeCh, brother)
              IN eraseAdjust(note(T3, "e6"), node, par)
         ELSE IF bothBlack
         THEN eraseAdjust(note(setColor(T, brother, red), "e7"), par, getParent(T, par))
         ELSE IF mustGetColor(T, getChild(T, brother, nodeCh)) = red
         THEN LET T1 == setColor(T, getChild(T, brother, nodeCh), black)
                  T2 == rotate(T1, 1 - nodeCh, getChild(T1, brother, nodeCh))
              IN note(rotate(T2, nodeCh, getChild(T2, par, 1 - nodeCh)), "e8")
         ELSE LET T1 == setColor(T, getChild(T, brother, 1 - nodeCh), black)
              IN note(rotate(T1, nodeCh, brother), "e9")

\* a cache adjustment that looks for the new minimum before the old one and for
\* the new maximum after the old one
eraseMostSwapped(T, node, ch) ==
  IF most(T, ch) = node
  THEN LET v == IF ch = 0 THEN last(T, node) ELSE next(T, node) IN
       IF v \in Panics THEN panic(T, v) ELSE store(T, mostPoiter(ch), v)
  ELSE T

\* the leftmost/rightmost adjustment of eraseIterator for one side
eraseMost(T, node, ch) ==
  IF most(T, ch) = node
  THEN LET v == IF ch = 0 THEN next(T, node) ELSE last(T, node) IN
       IF v \in Panics THEN panic(T, v) ELSE store(T, mostPoiter(ch), v)
  ELSE T

\* a splice that never runs the fixup
eraseSpliceNoAdjust(T, node) ==
  LET c == IF getChild(T, node, 0) # end(T) THEN getChild(T, node, 0)
           ELSE IF getChild(T, node, 1) # end(T) THEN getChild(T, node, 1)
           ELSE end(T)
      par == getParent(T, node)
      T1 == IF c # end(T) THEN setParent(T, c, par) ELSE T
      T2 == IF par = end(T) THEN store(T1, rootPoiter, c)
            ELSE IF getChild(T1, par, 0) = node THEN setChild(T1, par, 0, c)
            ELSE setChild(T1, par, 1, c)
  IN deleteNode(T2, node)

\* the splice of eraseIterator: node has at most one child
eraseSplice(T, node) ==
  LET c == IF getChild(T, node, 0) # end(T) THEN getChild(T, node, 0)
           ELSE IF getChild(T, node, 1) # end(T) THEN getChild(T, node, 1)
           ELSE end(T)
      par == getParent(T, node)
      T1 == IF c # end(T) THEN setParent(T, c, par) ELSE T
      T2 == IF par = end(T) THEN store(T1, rootPoiter, c)
            ELSE IF getChild(T1, par, 0) = node THEN setChild(T1, par, 0, c)
            ELSE setChild(T1, par, 1, c)
      T3 == IF getColor(T2, node) = black THEN eraseAdjust(T2, c, par) ELSE T2
  IN deleteNode(T3, node)

\* a CopyData that copies nothing, as Node.CopyData does when the host does not override it
CopyDataNothing(T, dst, src) == T

\* CopyData of the host: the payload of src replaces the payload of dst
CopyData(T, dst, src) == [T EXCEPT !.data[dst] = T.data[src]]

\* an eraseNode that copies the payload of the following node and splices out the
\* preceding one
eraseNodeCopyNext(T1, node) ==
  LET two == getChild(T1, node, 0) # end(T1) /\ getChild(T1, node, 1) # end(T1)
      tmp == last(T1, node)
      nx == next(T1, node)
  IN
  IF two /\ tmp \in Panics THEN panic(T1, tmp)
  ELSE IF two /\ nx \in Panics THEN panic(T1, nx)
  ELSE
    LET T2 == IF two THEN note(CopyData(T1, node, nx), "two") ELSE T1
        victim == IF two THEN tmp ELSE node
        T3 == eraseMost(T2, victim, 0)
        T4 == IF T3.err # NoErr THEN T3 ELSE eraseMost(T3, victim, 1)
    IN IF T4.err # NoErr THEN T4 ELSE eraseSplice(T4, victim)

\* eraseIterator after its size decrement: the payload move, the caches, the splice
eraseNode(T1, node) ==
  LET two == getChild(T1, node, 0) # end(T1) /\ getChild(T1, node, 1) # end(T1)
      tmp == last(T1, node)
  IN
  IF two /\ tmp \in Panics THEN panic(T1, tmp)
  ELSE
    LET T2 == IF two THEN note(CopyData(T1, node, tmp), "two") ELSE T1
        victim == IF two THEN tmp ELSE node
        T3 == eraseMost(T2, victim, 0)
        T4 == IF T3.err # NoErr THEN T3 ELSE eraseMost(T3, victim, 1)
    IN IF T4.err # NoErr THEN T4 ELSE eraseSplice(T4, victim)

\* an eraseIterator that counts the erase before it looks at the cursor
eraseIteratorCountFirst(T, node) ==
  LET T1 == [T EXCEPT !.size = @ - 1] IN
  IF node = end(T) THEN panic(T1, ErrEraseEmpty) ELSE eraseNode(T1, node)

eraseIterator(T, node) ==
  IF node = end(T) THEN panic(T, ErrEraseEmpty)
  ELSE eraseNode([T EXCEPT !.size = @ - 1], node)

\* the loop of Erase in multi mode
RECURSIVE eraseLoop(_, _, _)
eraseLoop(T, key, beg) ==
  IF beg # end(T) /\ compare(key, getKey(T, beg)) = 0
  THEN LET tmp == next(T, beg) IN
       IF tmp \in Panics THEN panic(T, tmp)
       ELSE LET T1 == eraseIterator(T, beg) IN
            IF T1.err # NoErr THEN T1
            ELSE eraseLoop([T1 EXCEPT !.count = @ + 1], key, tmp)
  ELSE T

\* an Erase that removes one match whatever the mode
EraseOne(T, key) ==
  LET it == find(T, key, root(T)) IN
  IF it = end(T) THEN [T EXCEPT !.count = 0]
  ELSE LET T1 == eraseIterator(T, it) IN
       IF T1.err # NoErr THEN T1 ELSE [T1 EXCEPT !.count = 1]

Erase(T, key) ==
  IF T.unique
  THEN LET it == find(T, key, root(T)) IN
       IF it = end(T) THEN [T EXCEPT !.count = 0]
       ELSE LET T1 == eraseIterator(T, it) IN
            IF T1.err # NoErr THEN T1 ELSE [T1 EXCEPT !.count = 1]
  ELSE LET beg == lowerBound(T, key) IN
       IF beg \in Panics THEN panic(T, beg) ELSE eraseLoop(T, key, beg)

EraseIterator(T, node) ==
  IF ~sameTree(T, node) THEN panic(T, ErrNotInTree) ELSE eraseIterator(T, node)

\* a range erase that tests for the end after erasing, so that end goes too
RECURSIVE eraseIteratorRangeInclusive(_, _, _)
eraseIteratorRangeInclusive(T, beg, e) ==
  LET tmp == next(T, beg) IN
  IF tmp \in Panics THEN panic(T, tmp)
  ELSE LET T1 == eraseIterator(T, beg) IN
       IF T1.err # NoErr THEN T1
       ELSE IF beg = e THEN [T1 EXCEPT !.count = @ + 1]
       ELSE eraseIteratorRangeInclusive([T1 EXCEPT !.count = @ + 1], tmp, e)

RECURSIVE eraseIteratorRange(_, _, _)
eraseIteratorRange(T, beg, e) ==
  IF beg # e
  THEN LET tmp == next(T, beg) IN
       IF tmp \in Panics THEN panic(T, tmp)
       ELSE LET T1 == eraseIterator(T, beg) IN
            IF T1.err # NoErr THEN T1
            ELSE eraseIteratorRange([T1 EXCEPT !.count = @ + 1], tmp, e)
  ELSE T

\* --------------------------------------------------------------- clear
\* a clear that releases a node before the nodes below it
RECURSIVE clearParentFirst(_, _)
clearParentFirst(T, rt) ==
  IF rt = end(T) THEN T
  ELSE LET l == getChild(T, rt, 0)
           r == getChild(T, rt, 1)
           T1 == deleteNode(T, rt)
           T2 == clearParentFirst(T1, l)
       IN clearParentFirst(T2, r)

RECURSIVE clear(_, _)
clear(T, rt) ==
  IF rt = end(T) THEN T
  ELSE LET T1 == clear(T, getChild(T, rt, 0))
           T2 == clear(T1, getChild(T1, rt, 1))
       IN deleteNode(T2, rt)

Clear(T) ==
  LET T1 == clear(T, root(T))
      T2 == store(T1, mostPoiter(0), end(T))
      T3 == store(T2, mostPoiter(1), end(T))
      T4 == store(T3, rootPoiter, end(T))
  IN [T4 EXCEPT !.size = 0]

\* ------------------------------------------------------- state machine
commit(T) ==
  /\ child' = T.child
  /\ parent' = T.parent
  /\ color' = T.color
  /\ data' = T.data
  /\ tree' = T.tree
  /\ size' = T.size
  /\ heap' = T.heap
  /\ iter' = T.iter
  /\ ok' = T.ok
  /\ count' = T.count
  /\ err' = T.err
  /\ cases' = T.cases
  /\ freed' = T.freed
  /\ UNCHANGED unique

\* NewTreer / Tree.init, for this tree and for the second one: both empty, no node
\* has been created yet
Init ==
  /\ child = [n \in Nodes |-> [ch \in {0, 1} |-> IF n \in {header, other} THEN n ELSE nil]]
  /\ parent = [n \in Nodes |-> IF n \in {header, other} THEN n ELSE nil]
  /\ color = [n \in Nodes |-> red]
  /\ data = [n \in Nodes |-> NoData]
  /\ tree = [n \in Nodes |-> IF n \in {header, other} THEN n ELSE nil]
  /\ size = 0
  /\ heap = 0
  /\ unique \in BOOLEAN
  /\ op = [name |-> "init", a |-> nil, b |-> nil]
  /\ iter = nil
  /\ ok = FALSE
  /\ count = 0
  /\ err = NoErr
  /\ cases = {}
  /\ freed = <<>>

\* the cursors a caller can hold: the nodes of this tree and End()
Cursors == {n \in Nodes : tree[n] = header}

\* a cursor of another tree
Foreign == {other}

\* the keys a caller offers
Keys == IF unique THEN 1..MaxKey ELSE 1..MaxMultiKey

\* Insert(data); MaxNodes bounds the nodes the factory creates
DoInsert(k) ==
  /\ hasFree(Cur) \/ insertDescend(Cur, k, root(Cur), header, rootPoiter).reject
  /\ op' = [name |-> "Insert", a |-> k, b |-> nil]
  /\ commit(insert(Cur, k, k))

DoErase(k) ==
  /\ op' = [name |-> "Erase", a |-> k, b |-> nil]
  /\ commit(Erase(Cur, k))

DoEraseIterator(c) ==
  /\ op' = [name |-> "EraseIterator", a |-> c, b |-> nil]
  /\ commit(EraseIterator(Cur, c))

\* EraseIteratorRange(beg, end).  With beg a cursor of another tree the loop of
\* next never meets this tree's header and the call does not return: no step.
DoEraseIteratorRange(b, e) ==
  /\ op' = [name |-> "EraseIteratorRange", a |-> b, b |-> e]
  /\ commit(eraseIteratorRange(Cur, b, e))

DoClear ==
  /\ op' = [name |-> "Clear", a |-> nil, b |-> nil]
  /\ commit(Clear(Cur))

Next ==
  \/ \E k \in Keys : DoInsert(k)
  \/ \E k \in Keys : DoErase(k)
  \/ \E c \in Cursors \cup Foreign : DoEraseIterator(c)
  \/ \E b \in Cursors, e \in Cursors \cup Foreign : DoEraseIteratorRange(b, e)
  \/ DoClear

Spec == Init /\ [][Next]_vars

\* ============================================================ properties
\* What a caller and an auditor can observe of a tree value T.

\* the nodes below and including n, by the child links alone
RECURSIVE subtree(_, _, _)
subtree(T, n, fuel) ==
  IF n = end(T) \/ n = nil \/ fuel = 0 THEN {}
  ELSE {n} \cup subtree(T, getChild(T, n, 0), fuel - 1) \cup subtree(T, getChild(T, n, 1), fuel - 1)

TreeNodes(T) == subtree(T, root(T), MaxNodes + 1)

\* the in-order sequence of the nodes below n, by the child links alone
RECURSIVE inorder(_, _, _)
inorder(T, n, fuel) ==
  IF n = end(T) \/ n = nil \/ fuel = 0 THEN <<>>
  ELSE inorder(T, getChild(T, n, 0), fuel - 1) \o <<n>> \o inorder(T, getChild(T, n, 1), fuel - 1)

InOrder(T) == inorder(T, root(T), MaxNodes + 1)

\* the nodes a caller visits from Begin() with Next() until End()
RECURSIVE walk(_, _, _)
walk(T, n, fuel) ==
  IF n = end(T) \/ n \in Panics \/ fuel = 0 THEN <<>>
  ELSE <<n>> \o walk(T, next(T, n), fuel - 1)

Iteration(T) == walk(T, begin(T), MaxNodes + 1)

\* number of black nodes on every path from n down to a terminal position,
\* or -1 when two paths disagree
RECURSIVE blackHeight(_, _, _)
blackHeight(T, n, fuel) ==
  IF n = end(T) \/ fuel = 0 THEN 0
  ELSE LET l == blackHeight(T, getChild(T, n, 0), fuel - 1)
           r == blackHeight(T, getChild(T, n, 1), fuel - 1)
       IN IF l = -1 \/ r = -1 \/ l # r THEN -1
          ELSE l + (IF getColor(T, n) = black THEN 1 ELSE 0)

\* number of stored entries whose key is k
mult(T, k) == Cardinality({n \in TreeNodes(T) : getKey(T, n) = k})

\* C1: after any sequence of Insert, Erase, EraseIterator, EraseIteratorRange and
\* Clear calls no red node has a red child, and the root, when present, is black.
C1_NoRedRed ==
  /\ \A n \in TreeNodes(Cur) :
       getColor(Cur, n) = red =>
         /\ mustGetColor(Cur, getChild(Cur, n, 0)) = black
         /\ mustGetColor(Cur, getChild(Cur, n, 1)) = black
  /\ root(Cur) # header => getColor(Cur, root(Cur)) = black

\* an erase went through the red-brother fixup and left a red node below the root
C1_Witness ==
  /\ op.name \in {"Erase", "EraseIterator", "EraseIteratorRange"}
  /\ "e6" \in cases
  /\ \E n \in TreeNodes(Cur) : getColor(Cur, n) = red

\* C2: after any sequence of those calls every path from the root, and from any
\* node, down to a terminal position passes through the same number of black nodes.
C2_BlackHeight ==
  \A n \in TreeNodes(Cur) \cup {root(Cur)} : blackHeight(Cur, n, MaxNodes + 1) # -1

\* an erase of a black node ran a rotating fixup under a red parent; the tree keeps black height 2
C2_Witness ==
  /\ op.name = "EraseIterator"
  /\ cases \cap {"e4", "e5"} # {}
  /\ blackHeight(Cur, root(Cur), MaxNodes + 1) = 2

\* C3: iterating from Begin() with Next() until End() visits exactly Size() nodes,
\* their keys in non-decreasing order, strictly increasing in unique mode.
C3_IterationSorted ==
  LET s == Iteration(Cur) IN
  /\ Len(s) = Size(Cur)
  /\ \A i \in 1..(Len(s) - 1) :
       /\ getKey(Cur, s[i]) <= getKey(Cur, s[i + 1])
       /\ unique => getKey(Cur, s[i]) < getKey(Cur, s[i + 1])

\* a multi tree of five entries with duplicates, after an erase that moved a payload
C3_Witness ==
  /\ ~unique
  /\ op.name \in {"Erase", "EraseIterator"}
  /\ "two" \in cases
  /\ Size(Cur) = 5
  /\ Len(Iteration(Cur)) = 5

\* C4: Size() is the number of non-header nodes reachable from the root, and
\* Empty() is true exactly when that number is zero.
C4_SizeIsNodeCount ==
  /\ Size(Cur) = Cardinality(TreeNodes(Cur))
  /\ Empty(Cur) <=> Cardinality(TreeNodes(Cur)) = 0

\* a range erase removed three entries and left two
C4_Witness ==
  /\ op.name = "EraseIteratorRange"
  /\ err = NoErr
  /\ count = 3
  /\ Size(Cur) = 2

\* C5: the header's child[0] is the first node of the in-order sequence, its
\* child[1] the last, its parent the root of all stored nodes; on the empty tree
\* all three are the header itself, so Begin() = End().
C5_HeaderCaches ==
  LET s == InOrder(Cur)
      stored == {n \in Real : tree[n] = header}
  IN
  /\ {s[i] : i \in 1..Len(s)} = stored
  /\ IF stored = {}
     THEN most(Cur, 0) = header /\ most(Cur, 1) = header /\ root(Cur) = header
          /\ begin(Cur) = end(Cur)
     ELSE most(Cur, 0) = s[1] /\ most(Cur, 1) = s[Len(s)]
          /\ root(Cur) # header /\ getParent(Cur, root(Cur)) = header

\* an erase removed the leftmost node of a tree that keeps three nodes, none of them the root at either end
C5_Witness ==
  /\ op.name = "EraseIterator"
  /\ freed # <<>>
  /\ Size(Cur) = 3
  /\ most(Cur, 0) # root(Cur)
  /\ most(Cur, 1) # root(Cur)
  /\ op.a < most(Cur, 0)

\* C6: whenever Insert succeeds the returned cursor references the newly created
\* node, which holds the inserted payload.
C6_InsertReturnsNewNode ==
  (op.name = "Insert" /\ ok) => (iter = heap /\ getKey(Cur, iter) = op.a)

\* C7: in unique mode Insert of a key equal to a stored key returns (End(), false)
\* and leaves links, colours, caches, payloads, ownership and size unchanged, creating
\* no node; in multi mode Insert returns true and Size() grows by exactly 1.
C7_InsertDuplicate ==
  [][op'.name = "Insert" =>
       /\ (unique /\ mult(Cur, op'.a) > 0) =>
            /\ iter' = end(Cur) /\ ok' = FALSE /\ err' = NoErr
            /\ UNCHANGED <<child, parent, color, data, tree, size, heap>>
       /\ ~unique =>
            /\ ok' = TRUE /\ err' = NoErr
            /\ size' = size + 1
            /\ heap' = heap + 1]_vars

\* a unique tree of three entries has just rejected an Insert
C7_Witness ==
  /\ unique
  /\ op.name = "Insert"
  /\ ~ok
  /\ iter = header
  /\ Size(Cur) = 3

\* the keys a stored entry can hold
AllKeys == 1..MaxKey

\* C8: Erase(key) removes every stored entry whose key equals key, returns their
\* number (0 when absent), keeps every entry of another key with its multiplicity,
\* and leaves Count(key) = 0.
C8_EraseKey ==
  [][op'.name = "Erase" =>
       /\ err' = NoErr
       /\ count' = mult(Cur, op'.a)
       /\ unique => count' <= 1
       /\ mult(Cur', op'.a) = 0
       /\ Count(Cur', op'.a) = 0
       /\ size' = size - count'
       /\ \A j \in AllKeys \ {op'.a} : mult(Cur', j) = mult(Cur, j)]_vars

\* a multi-mode Erase removed three equal entries, one of them by moving a payload,
\* and left entries of the other key
C8_Witness ==
  /\ ~unique
  /\ op.name = "Erase"
  /\ count = 3
  /\ "two" \in cases
  /\ Size(Cur) >= 2

\* C9: EraseIterator(c) for a non-end cursor c of the tree removes exactly the entry
\* c referenced: the stored payloads afterwards are those before minus one occurrence
\* of c's payload, and Size() decreases by exactly 1.
C9_EraseIterator ==
  [][(op'.name = "EraseIterator" /\ op'.a \in Real) =>
       /\ err' = NoErr
       /\ size' = size - 1
       /\ \A j \in AllKeys :
            mult(Cur', j) = mult(Cur, j) - (IF j = getKey(Cur, op'.a) THEN 1 ELSE 0)]_vars

\* the root of a tree, a node with two children, has just been erased
C9_Witness ==
  /\ op.name = "EraseIterator"
  /\ "two" \in cases
  /\ err = NoErr
  /\ Size(Cur) >= 3
  /\ tree[op.a] = header
  /\ root(Cur) = op.a

\* the first node of the sequence s whose key is > key (strict) or >= key,
\* End() when there is none
firstFrom(T, s, key, strict) ==
  LET hits == {j \in 1..Len(s) : IF strict THEN getKey(T, s[j]) > key ELSE getKey(T, s[j]) >= key}
  IN IF hits = {} THEN end(T) ELSE s[CHOOSE j \in hits : \A h \in hits : j <= h]

\* the keys a caller probes with: the stored ones, their neighbours and both ends
ProbeKeys == 0..(MaxKey + 1)

\* C10: LowerBound(k) is the first node in iteration order whose key is >= k and
\* UpperBound(k) the first whose key is > k; each is End() when there is none.
C10_Bounds ==
  \A k \in ProbeKeys :
    /\ lowerBound(Cur, k) = firstFrom(Cur, Iteration(Cur), k, FALSE)
    /\ upperBound(Cur, k) = firstFrom(Cur, Iteration(Cur), k, TRUE)

\* a tree of five entries with duplicates: for one stored key the lower bound is a
\* real node that is neither the first node nor the root, and for another the upper
\* bound is a real node later than its lower bound
C10_Witness ==
  /\ Size(Cur) = 5
  /\ \E k \in AllKeys :
       /\ lowerBound(Cur, k) \notin {header, begin(Cur), root(Cur)}
       /\ getKey(Cur, lowerBound(Cur, k)) = k
       /\ mult(Cur, k) >= 2
  /\ \E k \in AllKeys :
       /\ mult(Cur, k) >= 2
       /\ upperBound(Cur, k) \notin {header, lowerBound(Cur, k), root(Cur)}

\* the number of Next() steps that lead from cursor a to cursor b, or -1 when
\* b is not met before End()
RECURSIVE stepsTo(_, _, _, _)
stepsTo(T, a, b, fuel) ==
  IF a = b THEN 0
  ELSE IF a = end(T) \/ a \in Panics \/ fuel = 0 THEN -1
  ELSE LET r == stepsTo(T, next(T, a), b, fuel - 1) IN
       IF r = -1 THEN -1 ELSE r + 1

\* C11: Count(k) is the number of stored entries whose key equals k; walking with
\* Next() from LowerBound(k) reaches UpperBound(k) after exactly that many steps,
\* and LowerBound(k) = UpperBound(k) when k is absent.
C11_CountEqualRange ==
  \A k \in ProbeKeys :
    LET er == EqualRange(Cur, k) IN
    /\ Count(Cur, k) = mult(Cur, k)
    /\ stepsTo(Cur, er[1], er[2], MaxNodes + 1) = mult(Cur, k)
    /\ mult(Cur, k) = 0 => er[1] = er[2]

\* a multi tree of five entries holds one key three times, after two entries of a
\* smaller key, and lacks a key that lies between stored keys and the end
C11_Witness ==
  /\ ~unique
  /\ Size(Cur) = 5
  /\ \E k \in AllKeys :
       /\ Count(Cur, k) = 3
       /\ EqualRange(Cur, k)[1] \notin {begin(Cur), root(Cur)}
       /\ stepsTo(Cur, EqualRange(Cur, k)[1], EqualRange(Cur, k)[2], MaxNodes + 1) = 3
  /\ \E k \in ProbeKeys :
       /\ Count(Cur, k) = 0
       /\ EqualRange(Cur, k)[1] = EqualRange(Cur, k)[2]

\* the links, colours, payloads, ownership, size and created nodes of two tree values agree
SameTreeState(A, B) ==
  /\ A.child = B.child
  /\ A.parent = B.parent
  /\ A.color = B.color
  /\ A.data = B.data
  /\ A.tree = B.tree
  /\ A.size = B.size
  /\ A.heap = B.heap

\* C12: Find(k) returns a cursor to a stored node whose key equals k when there is
\* one and End() otherwise, and the tree after Find is the tree before it.
C12_Find ==
  \A k \in ProbeKeys :
    LET R == Find(Cur, k) IN
    /\ R.err = NoErr
    /\ IF mult(Cur, k) > 0
       THEN R.iter \in TreeNodes(Cur) /\ getKey(Cur, R.iter) = k
       ELSE R.iter = end(Cur)
    /\ SameTreeState(R, Cur)

\* a multi tree of five entries where Find meets its key two levels below the
\* root, and misses another key
C12_Witness ==
  /\ ~unique
  /\ Size(Cur) = 5
  /\ \E k \in ProbeKeys : Find(Cur, k).iter = end(Cur)
  /\ \E k \in AllKeys :
       /\ Find(Cur, k).iter \in Real
       /\ getParent(Cur, Find(Cur, k).iter) \notin {header, root(Cur)}

\* C13: for every cursor c other than End(), Next(c) is defined, Last(Next(c)) is
\* defined and is c, so that Next(Last(Next(c))) = Next(c); Next of the maximum
\* node is End().
C13_NextLast ==
  /\ \A c \in Cursors \ {header} :
       LET N == TreeNext(Cur, c)
           L == TreeLast(Cur, N.iter)
       IN /\ N.err = NoErr
          /\ L.err = NoErr
          /\ L.iter = c
          /\ TreeNext(Cur, L.iter).err = NoErr
          /\ TreeNext(Cur, L.iter).iter = N.iter
  /\ ~Empty(Cur) => /\ TreeNext(Cur, most(Cur, 1)).err = NoErr
                    /\ TreeNext(Cur, most(Cur, 1)).iter = end(Cur)

\* a tree of six entries where Next of some node climbs past its parent to a stored node
C13_Witness ==
  /\ Size(Cur) = 6
  /\ \E c \in Cursors \ {header} :
       /\ getChild(Cur, c, 1) = end(Cur)
       /\ TreeNext(Cur, c).iter \in Real
       /\ TreeNext(Cur, c).iter # getParent(Cur, c)
       /\ TreeLast(Cur, TreeNext(Cur, c).iter).iter = c

\* C14 as stated: in every reachable state Last(End()) returns the cached maximum
\* and raises no error.
C14_LastOfEndAlways ==
  /\ TreeLast(Cur, end(Cur)).err = NoErr
  /\ TreeLast(Cur, end(Cur)).iter = most(Cur, 1)

\* C14: in every reachable state of a tree that is not empty Last(End()) returns
\* the cached maximum, a stored node, and raises no error; on the empty tree End()
\* is also Begin() and Last(End()) panics with ErrNoLast.
C14_LastOfEnd ==
  IF Empty(Cur)
  THEN TreeLast(Cur, end(Cur)).err = ErrNoLast
  ELSE /\ TreeLast(Cur, end(Cur)).err = NoErr
       /\ TreeLast(Cur, end(Cur)).iter = most(Cur, 1)
       /\ most(Cur, 1) \in Real
       /\ \A n \in TreeNodes(Cur) : getKey(Cur, n) <= getKey(Cur, most(Cur, 1))

\* an erase has just rewritten the cached maximum of a tree that keeps four
\* entries, and Last(End()) is that maximum, which is not the root
C14_Witness ==
  /\ op.name = "EraseIterator"
  /\ err = NoErr
  /\ Size(Cur) = 4
  /\ freed # <<>>
  /\ TreeLast(Cur, end(Cur)).iter \in Real \ {root(Cur)}

\* C15: Next(End()) panics with ErrNoNext, Last(Begin()) with ErrNoLast and
\* EraseIterator(End()) with ErrEraseEmpty, each of them with the tree as it was
\* before the call and no node released.
C15_Panics ==
  [][/\ TreeNext(Cur, end(Cur)).err = ErrNoNext
     /\ SameTreeState(TreeNext(Cur, end(Cur)), Cur)
     /\ TreeLast(Cur, begin(Cur)).err = ErrNoLast
     /\ SameTreeState(TreeLast(Cur, begin(Cur)), Cur)
     /\ (op'.name = "EraseIterator" /\ op'.a = end(Cur)) =>
          /\ err' = ErrEraseEmpty
          /\ freed' = <<>>
          /\ UNCHANGED <<child, parent, color, data, tree, size, heap>>]_vars

\* EraseIterator(End()) has just panicked on a tree of three entries or more
C15_Witness ==
  /\ op.name = "EraseIterator"
  /\ op.a = header
  /\ err = ErrEraseEmpty
  /\ Size(Cur) >= 3
  /\ TreeNext(Cur, end(Cur)).err = ErrNoNext
  /\ TreeLast(Cur, begin(Cur)).err = ErrNoLast

\* C16: a cursor of another tree given to Next, Last, EraseIterator or to either
\* end of EraseIteratorRange makes the call panic with ErrNotInTree, and neither
\* tree is modified.
C16_ForeignCursorRejected ==
  [][/\ \A f \in Foreign :
          /\ TreeNext(Cur, f).err = ErrNotInTree
          /\ SameTreeState(TreeNext(Cur, f), Cur)
          /\ TreeLast(Cur, f).err = ErrNotInTree
          /\ SameTreeState(TreeLast(Cur, f), Cur)
     /\ (/\ op'.name \in {"EraseIterator", "EraseIteratorRange"}
         /\ op'.a \in Foreign \/ op'.b \in Foreign) =>
          /\ err' = ErrNotInTree
          /\ freed' = <<>>
          /\ UNCHANGED <<child, parent, color, data, tree, size, heap>>]_vars

\* the position of x in the sequence s
pos(s, x) == CHOOSE i \in 1..Len(s) : s[i] = x

\* the cursors of the tree in iteration order, End() last
Order(T) == Iteration(T) \o <<end(T)>>

\* C17: EraseIteratorRange(beg, end) with both cursors in the tree and end before
\* beg in iteration order panics with ErrNoLast.
C17_ReversedRangeNoLast ==
  [][(/\ op'.name = "EraseIteratorRange"
      /\ op'.b \in Cursors
      /\ pos(Order(Cur), op'.b) < pos(Order(Cur), op'.a)) =>
       err' = ErrNoLast]_vars

\* the keys met by iterating over T
IterKeys(T) == LET s == Iteration(T) IN [i \in 1..Len(s) |-> getKey(T, s[i])]

\* C18: EraseIteratorRange(beg, end) with beg at or before end in iteration order
\* removes exactly the entries from beg up to, not including, end and returns their
\* number; the entries outside keep their order, the node end refers to is not
\* released and keeps its payload, and no single erase releases the successor saved
\* before it.
C18_RangeErase ==
  [][(/\ op'.name = "EraseIteratorRange"
      /\ op'.b \in Cursors
      /\ pos(Order(Cur), op'.a) <= pos(Order(Cur), op'.b)) =>
       LET s == Order(Cur)
           i == pos(s, op'.a)
           j == pos(s, op'.b)
           K == IterKeys(Cur)
       IN /\ err' = NoErr
          /\ count' = j - i
          /\ size' = size - (j - i)
          /\ IterKeys(Cur') = SubSeq(K, 1, i - 1) \o SubSeq(K, j, Len(K))
          /\ Len(freed') = j - i
          /\ \A m \in 1..Len(freed') : freed'[m] # op'.b /\ freed'[m] # s[i + m]
          /\ tree'[op'.b] = header
          /\ data'[op'.b] = data[op'.b]]_vars

\* a range erase removed three entries from the middle of a six-entry tree, one of
\* them by moving a payload, and stopped at a stored node
C18_Witness ==
  /\ op.name = "EraseIteratorRange"
  /\ err = NoErr
  /\ count = 3
  /\ "two" \in cases
  /\ op.b \in Real
  /\ tree[op.b] = header
  /\ Size(Cur) = 3
  /\ begin(Cur) # op.b

\* the red rule, the black heights, the order, the size and the header's caches of T
WellFormed(T) ==
  LET s == InOrder(T) IN
  /\ \A n \in TreeNodes(T) :
       getColor(T, n) = red =>
         /\ mustGetColor(T, getChild(T, n, 0)) = black
         /\ mustGetColor(T, getChild(T, n, 1)) = black
  /\ root(T) # end(T) => getColor(T, root(T)) = black
  /\ blackHeight(T, root(T), MaxNodes + 1) # -1
  /\ Iteration(T) = s
  /\ \A i \in 1..(Len(s) - 1) :
       /\ getKey(T, s[i]) <= getKey(T, s[i + 1])
       /\ T.unique => getKey(T, s[i]) < getKey(T, s[i + 1])
  /\ Size(T) = Len(s)
  /\ Size(T) = Cardinality(TreeNodes(T))
  /\ IF s = <<>>
     THEN most(T, 0) = end(T) /\ most(T, 1) = end(T) /\ root(T) = end(T)
     ELSE most(T, 0) = s[1] /\ most(T, 1) = s[Len(s)] /\ getParent(T, root(T)) = end(T)

\* the caller's loop: EraseIterator(Begin()) until Begin() = End(); the number of
\* erases made, the tree left, and whether every erase returned with a well-formed tree
RECURSIVE drain(_, _, _, _)
drain(T, n, sound, fuel) ==
  IF begin(T) = end(T) \/ fuel = 0
  THEN [tree |-> T, erases |-> n, sound |-> sound, done |-> begin(T) = end(T)]
  ELSE LET T1 == EraseIterator(T, begin(T)) IN
       drain(T1, n + 1, sound /\ T1.err = NoErr /\ Size(T1) = Size(T) - 1 /\ WellFormed(T1), fuel - 1)

\* C19: from any reachable tree of N entries the loop EraseIterator(Begin()) until
\* Begin() = End() ends after exactly N erases with the empty tree (Size 0; root,
\* leftmost and rightmost all End()), and the tree is well formed after each erase.
C19_DrainFromBegin ==
  LET R == drain(Cur, 0, TRUE, MaxNodes + 1) IN
  /\ R.done
  /\ R.erases = Size(Cur)
  /\ R.sound
  /\ Size(R.tree) = 0
  /\ Empty(R.tree)
  /\ root(R.tree) = end(Cur) /\ most(R.tree, 0) = end(Cur) /\ most(R.tree, 1) = end(Cur)
  /\ \A n \in Real : R.tree.tree[n] # header

\* a tree of six entries, from which the loop makes six erases
C19_Witness ==
  /\ Size(Cur) = 6
  /\ drain(Cur, 0, TRUE, MaxNodes + 1).erases = 6
  /\ Size(drain(Cur, 0, TRUE, MaxNodes + 1).tree) = 0

\* C20: Clear() hands every stored node to the reclaimer exactly once, a node only
\* after the nodes of both its subtrees, and leaves the empty tree, into which
\* a further Insert succeeds.
C20_Clear ==
  [][op'.name = "Clear" =>
       /\ err' = NoErr
       /\ Len(freed') = size
       /\ {freed'[i] : i \in 1..Len(freed')} = TreeNodes(Cur)
       /\ \A n \in TreeNodes(Cur) : \A ch \in {0, 1} :
            getChild(Cur, n, ch) # end(Cur) =>
              pos(freed', getChild(Cur, n, ch)) < pos(freed', n)
       /\ \A n \in TreeNodes(Cur) : tree'[n] = nil
       /\ size' = 0
       /\ root(Cur') = end(Cur) /\ most(Cur', 0) = end(Cur) /\ most(Cur', 1) = end(Cur)
       /\ WellFormed(Cur')
       /\ hasFree(Cur') =>
            \A k \in Keys :
              LET R == insert(Cur', k, k) IN
              /\ R.ok /\ R.err = NoErr
              /\ Size(R) = 1
              /\ root(R) \in Real /\ getKey(R, root(R)) = k
              /\ WellFormed(R)]_vars

\* Clear has just released the five nodes of a tree, the root last, and the host can
\* still create a node
C20_Witness ==
  /\ op.name = "Clear"
  /\ Len(freed) = 5
  /\ Size(Cur) = 0
  /\ hasFree(Cur)
  /\ \A k \in Keys : insert(Cur, k, k).ok

\* node has two real children in T
twoChildren(T, node) == getChild(T, node, 0) # end(T) /\ getChild(T, node, 1) # end(T)

\* node has at most one real child in T
atMostOneChild(T, node) == getChild(T, node, 0) = end(T) \/ getChild(T, node, 1) = end(T)

\* C21 as stated: when the erased node has two real children, the payload copied
\* into it is that of its in-order successor, and the successor is the node spliced
\* out and released.
C21_CopiesFromSuccessor ==
  [][(op'.name = "EraseIterator" /\ op'.a \in Real /\ twoChildren(Cur, op'.a)) =>
       LET nx == next(Cur, op'.a) IN
       /\ nx \in Real
       /\ data'[op'.a] = data[nx]
       /\ freed' = <<nx>>
       /\ tree'[nx] = nil
       /\ tree'[op'.a] = header]_vars

\* C21: when the erased node has two real children, the payload copied into it is
\* that of its in-order predecessor, which has at most one child, and the
\* predecessor is the node spliced out and released; the erased cursor's node stays
\* in the tree and the successor is untouched.
C21_CopiesFromPredecessor ==
  [][(op'.name = "EraseIterator" /\ op'.a \in Real /\ twoChildren(Cur, op'.a)) =>
       LET p == last(Cur, op'.a)
           nx == next(Cur, op'.a)
       IN
       /\ p \in Real
       /\ atMostOneChild(Cur, p)
       /\ data'[op'.a] = data[p]
       /\ freed' = <<p>>
       /\ tree'[p] = nil
       /\ tree'[op'.a] = header
       /\ nx \in Real /\ tree'[nx] = header /\ data'[nx] = data[nx]
       /\ next(Cur', op'.a) = nx]_vars

\* an erase of a node with two children has just released another node, whose key
\* was smaller than that of the node that follows the erased cursor
C21_Witness ==
  /\ op.name = "EraseIterator"
  /\ "two" \in cases
  /\ err = NoErr
  /\ op.a \in Real
  /\ tree[op.a] = header
  /\ Len(freed) = 1
  /\ freed[1] # op.a
  /\ next(Cur, op.a) \in Real
  /\ getKey(Cur, op.a) < getKey(Cur, next(Cur, op.a))

\* for an erase through cursor a: the node spliced out, its parent, its side, its
\* brother and the brother's children on the near and on the far side
spliced(T, a) ==
  LET v == IF twoChildren(T, a) THEN last(T, a) ELSE a
      par == getParent(T, v)
      nodeCh == IF getChild(T, par, 1) = v THEN 1 ELSE 0
      brother == getChild(T, par, 1 - nodeCh)
  IN [v |-> v, par |-> par, nodeCh |-> nodeCh, brother |-> brother,
      near |-> getChild(T, brother, nodeCh), far |-> getChild(T, brother, 1 - nodeCh)]

\* the erase through cursor a splices out a black node without a child, below a black
\* parent with a black brother that has a red child
blackBrotherRedChild(T, a) ==
  LET f == spliced(T, a) IN
  /\ f.par # end(T)
  /\ getColor(T, f.v) = black
  /\ getChild(T, f.v, 0) = end(T) /\ getChild(T, f.v, 1) = end(T)
  /\ getColor(T, f.par) = black
  /\ f.brother # end(T)
  /\ getColor(T, f.brother) = black
  /\ mustGetColor(T, f.near) = red \/ mustGetColor(T, f.far) = red

\* after the step, x stands where par stood, with y below it on side ch
liftedOver(f, x, ch, y) ==
  /\ parent'[x] = parent[f.par]
  /\ child'[x][ch] = y
  /\ parent'[y] = x

\* C22 as stated: in the erase fixup under a black parent with a black brother that
\* has a red child, a red far child is recoloured black and a double rotation is
\* made; otherwise the near child is recoloured black and a single rotation is made;
\* the fixup stops.
C22_FarDoubleNearSingle ==
  [][(op'.name = "EraseIterator" /\ op'.a \in Real /\ blackBrotherRedChild(Cur, op'.a)) =>
       LET f == spliced(Cur, op'.a) IN
       /\ cases' \cap {"e1", "e2", "e3", "e4", "e5", "e6", "e7"} = {}
       /\ IF mustGetColor(Cur, f.far) = red
          THEN /\ color'[f.far] = black
               /\ liftedOver(f, f.near, f.nodeCh, f.par)
               /\ liftedOver(f, f.near, 1 - f.nodeCh, f.brother)
          ELSE /\ color'[f.near] = black
               /\ liftedOver(f, f.brother, f.nodeCh, f.par)
               /\ child'[f.brother][1 - f.nodeCh] = f.far]_vars

\* C22: in the erase fixup under a black parent with a black brother that has a red
\* child, a red near child (the one on the side of the replacement) is recoloured
\* black and a double rotation lifts it over the brother and the parent; otherwise
\* (only the far child is red) the far child is recoloured black and a single
\* rotation lifts the brother over the parent; in both cases the fixup stops and
\* the tree is well formed.
C22_NearDoubleFarSingle ==
  [][(op'.name = "EraseIterator" /\ op'.a \in Real /\ blackBrotherRedChild(Cur, op'.a)) =>
       LET f == spliced(Cur, op'.a) IN
       /\ err' = NoErr
       /\ cases' \cap {"e1", "e2", "e3", "e4", "e5", "e6", "e7"} = {}
       /\ IF mustGetColor(Cur, f.near) = red
          THEN /\ cases' \ {"two"} = {"e8"}
               /\ color'[f.near] = black
               /\ liftedOver(f, f.near, f.nodeCh, f.par)
               /\ liftedOver(f, f.near, 1 - f.nodeCh, f.brother)
               /\ f.far # end(Cur) => color'[f.far] = color[f.far] /\ parent'[f.far] = f.brother
          ELSE /\ cases' \ {"two"} = {"e9"}
               /\ color'[f.far] = black
               /\ liftedOver(f, f.brother, f.nodeCh, f.par)
               /\ child'[f.brother][1 - f.nodeCh] = f.far
               /\ child'[f.par][1 - f.nodeCh] = f.near
       /\ color'[f.par] = black /\ color'[f.brother] = black
       /\ WellFormed(Cur')]_vars

\* an erase has just made the double rotation: a node that was red two levels below
\* the root is now the black root, and its old parent keeps a red child
C22_Witness ==
  /\ op.name = "EraseIterator"
  /\ err = NoErr
  /\ "e8" \in cases
  /\ Size(Cur) = 4
  /\ getColor(Cur, root(Cur)) = black
  /\ \E ch \in {0, 1} :
       LET b == getChild(Cur, root(Cur), ch) IN
       b \in Real /\ \E c \in {0, 1} : mustGetColor(Cur, getChild(Cur, b, c)) = red

\* the stored nodes: those that belong to this tree
Stored == {n \in Real : tree[n] = header}

\* C23: after every public operation parent and child links agree: a real child c
\* of a stored node n has n as its parent; the root's parent is the header and the
\* header's parent is the root; every stored node is met exactly once below the
\* root, so there is no cycle and no shared child.
C23_LinksAgree ==
  LET s == InOrder(Cur) IN
  /\ \A n \in Stored : \A ch \in {0, 1} :
       LET c == getChild(Cur, n, ch) IN
       /\ c \in Stored \cup {header}
       /\ c # header => getParent(Cur, c) = n
  /\ \A n \in Stored :
       LET p == getParent(Cur, n) IN
       /\ p \in Stored \cup {header}
       /\ p # header => getChild(Cur, p, 0) = n \/ getChild(Cur, p, 1) = n
       /\ p = header <=> n = root(Cur)
  /\ \A n \in Stored : getChild(Cur, n, 0) # header => getChild(Cur, n, 0) # getChild(Cur, n, 1)
  /\ getParent(Cur, header) = root(Cur)
  /\ root(Cur) \in Stored \cup {header}
  /\ root(Cur) # header => getParent(Cur, root(Cur)) = header
  /\ Len(s) = Cardinality(Stored)
  /\ {s[i] : i \in 1..Len(s)} = Stored
  /\ \A i \in 1..Len(s) : \A j \in 1..Len(s) : s[i] = s[j] => i = j

\* an erase has just rotated under a red brother, which moved a real subtree from
\* one parent to another, and five nodes remain
C23_Witness ==
  /\ op.name \in {"Erase", "EraseIterator", "EraseIteratorRange"}
  /\ err = NoErr
  /\ "e6" \in cases
  /\ Size(Cur) = 5
  /\ Cardinality(Stored) = 5
  /\ \E n \in Stored : getParent(Cur, n) \notin {header, root(Cur)}

====
